---- MODULE Spec2Model ----
(***************************************************************************)
(* Filesystem MCP server (src/filesystem-mcp-server.py): the access gate   *)
(* get_api_key, the path guard safe_path, and the handlers read_root,      *)
(* list_files and read_file, over a POSIX filesystem.                      *)
(*                                                                         *)
(* Conventions.  A path is a sequence of one-character strings.  An        *)
(* optional value is the empty tuple (None) or a one-element tuple.  A     *)
(* filesystem is a function from segment sequences (the kernel's view of   *)
(* a path) to nodes.  Text is a sequence of code points, file content a    *)
(* sequence of bytes.                                                      *)
(***************************************************************************)
EXTENDS Integers, Sequences, FiniteSets, TLC

VARIABLES MCP_API_KEY, MCP_BASE_PATH, fs, pc, request, response, calls

vars == <<MCP_API_KEY, MCP_BASE_PATH, fs, pc, request, response, calls>>

None == <<>>

Some(x) == <<x>>

BoundedSeqs(S, n) == UNION {[1..k -> S] : k \in 0..n}

(***************************************************************************)
(* Bounds.                                                                 *)
(***************************************************************************)
MaxSegs == 2

MaxBytes == 3

MaxNodes == 3

(***************************************************************************)
(* Strings and os.path (posixpath).                                        *)
(***************************************************************************)
Slash == "/"

StartsWith(s, prefix) ==
    /\ Len(prefix) <= Len(s)
    /\ SubSeq(s, 1, Len(prefix)) = prefix

RECURSIVE SplitAcc(_, _, _, _)
SplitAcc(s, i, cur, acc) ==
    IF i > Len(s) THEN Append(acc, cur)
    ELSE IF s[i] = Slash THEN SplitAcc(s, i + 1, <<>>, Append(acc, cur))
    ELSE SplitAcc(s, i + 1, Append(cur, s[i]), acc)

\* str.split('/')
Split(s) == SplitAcc(s, 1, <<>>, <<>>)

RECURSIVE JoinComps(_)
\* '/'.join(comps)
JoinComps(comps) ==
    IF comps = <<>> THEN <<>>
    ELSE IF Len(comps) = 1 THEN comps[1]
    ELSE comps[1] \o <<Slash>> \o JoinComps(Tail(comps))

DotDot == <<".", ".">>

Dot == <<".">>

\* posixpath.normpath: 0, 1 or 2 leading slashes are kept
InitialSlashes(path) ==
    IF ~StartsWith(path, <<Slash>>) THEN 0
    ELSE IF StartsWith(path, <<Slash, Slash>>) /\ ~StartsWith(path, <<Slash, Slash, Slash>>)
         THEN 2
    ELSE 1

RECURSIVE NormComps(_, _, _)
NormComps(comps, new, initial) ==
    IF comps = <<>> THEN new
    ELSE LET comp == Head(comps)
             rest == Tail(comps)
         IN  IF comp = <<>> \/ comp = Dot THEN NormComps(rest, new, initial)
             ELSE IF \/ comp # DotDot
                     \/ (initial = 0 /\ new = <<>>)
                     \/ (new # <<>> /\ new[Len(new)] = DotDot)
                  THEN NormComps(rest, Append(new, comp), initial)
             ELSE IF new # <<>>
                  THEN NormComps(rest, SubSeq(new, 1, Len(new) - 1), initial)
             ELSE NormComps(rest, new, initial)

normpath(path) ==
    IF path = <<>> THEN Dot
    ELSE LET initial == InitialSlashes(path)
             joined == JoinComps(NormComps(Split(path), <<>>, initial))
             out == [i \in 1..initial |-> Slash] \o joined
         IN  IF out = <<>> THEN Dot ELSE out

\* os.path.join(a, b) for a relative b
join(a, b) ==
    IF a = <<>> \/ a[Len(a)] = Slash THEN a \o b ELSE a \o <<Slash>> \o b

\* os.getcwd() of the server process
Cwd == <<Slash, "d">>

abspath(path) ==
    IF StartsWith(path, <<Slash>>) THEN normpath(path)
    ELSE normpath(join(Cwd, path))

(***************************************************************************)
(* AccessGate.                                                             *)
(***************************************************************************)
API_KEY_NAME == "X-MCP-API-Key"

\* Python truthiness of an Optional[str]
Truthy(opt) == opt # None /\ opt[1] # ""

\* Python truthiness of an optional path (a character sequence)
TruthyPath(opt) == opt # None /\ opt[1] # <<>>

HTTPException(status_code, detail) ==
    [status |-> status_code, detail |-> detail, files |-> <<>>,
     content |-> <<>>, encoding |-> ""]

\* mutant of get_api_key: any non-empty header is accepted
get_api_key_AnyHeader(api_key) ==
    IF ~Truthy(MCP_API_KEY) THEN TRUE ELSE Truthy(api_key)

\* get_api_key as the handlers see it: TRUE when it returns, FALSE when it
\* raises HTTPException(403, "Invalid API key").  api_key is the optional
\* value of the X-MCP-API-Key header.
get_api_key(api_key) ==
    IF ~Truthy(MCP_API_KEY) THEN TRUE
    ELSE IF Truthy(api_key) /\ api_key = MCP_API_KEY THEN TRUE
    ELSE FALSE

InvalidApiKey == HTTPException(403, "Invalid API key")

(***************************************************************************)
(* PathGuard.                                                              *)
(***************************************************************************)
\* abs_path.startswith(base_path)
Contained(abs_path, base_path) == StartsWith(abs_path, base_path)

\* safe_path: [ok |-> TRUE, path |-> abs_path] or [ok |-> FALSE] for the 403
safe_path(path) ==
    LET abs_path == abspath(path)
    IN  IF TruthyPath(MCP_BASE_PATH) /\ ~Contained(abs_path, abspath(MCP_BASE_PATH[1]))
        THEN [ok |-> FALSE, path |-> abs_path]
        ELSE [ok |-> TRUE, path |-> abs_path]

OutsideBase == HTTPException(403, "Access to paths outside of MCP_BASE_PATH is not allowed")

(***************************************************************************)
(* The filesystem as the os module sees it.  A node is a directory with    *)
(* permission bits perm \subseteq {"r", "x"} or a regular file with perm   *)
(* \subseteq {"r"} and its bytes.  Symbolic links are not modelled.        *)
(***************************************************************************)
DirNode(perm) == [kind |-> "dir", perm |-> perm, bytes |-> <<>>]

FileNode(perm, bytes) == [kind |-> "file", perm |-> perm, bytes |-> bytes]

\* the kernel's view of a path string: its non-empty components
Segs(path) == SelectSeq(Split(path), LAMBDA c : c # <<>>)

RECURSIVE ErrnoFrom(_, _, _)
ErrnoFrom(f, segs, i) ==
    IF i > Len(segs) THEN "OK"
    ELSE LET parent == f[SubSeq(segs, 1, i - 1)]
         IN  IF parent.kind # "dir" THEN "ENOTDIR"
             ELSE IF "x" \notin parent.perm THEN "EACCES"
             ELSE IF SubSeq(segs, 1, i) \notin DOMAIN f THEN "ENOENT"
             ELSE ErrnoFrom(f, segs, i + 1)

\* path resolution: "OK" or the errno of stat(path)
Errno(f, path) == ErrnoFrom(f, Segs(path), 1)

Node(f, path) == f[Segs(path)]

\* os.path.exists: any OSError of stat reads as "does not exist"
exists(f, path) == Errno(f, path) = "OK"

\* os.path.isdir
isdir(f, path) == Errno(f, path) = "OK" /\ Node(f, path).kind = "dir"

\* errno of opening a directory for enumeration (os.listdir, os.scandir)
ScanErrno(f, path) ==
    IF Errno(f, path) # "OK" THEN Errno(f, path)
    ELSE IF Node(f, path).kind # "dir" THEN "ENOTDIR"
    ELSE IF "r" \notin Node(f, path).perm THEN "EACCES"
    ELSE "OK"

\* errno of open(path) for reading a regular file
OpenErrno(f, path) ==
    IF Errno(f, path) # "OK" THEN Errno(f, path)
    ELSE IF "r" \notin Node(f, path).perm THEN "EACCES"
    ELSE "OK"

\* the enumeration order of directory entries (fixed here; the code does
\* not sort and no property below depends on the order)
NameOrder == << <<"a">>, <<"b">>, <<"d">>, <<"d", "2">> >>

ChildNames(f, path) ==
    LET segs == Segs(path)
    IN  SelectSeq(NameOrder, LAMBDA n : Append(segs, n) \in DOMAIN f)

\* os.listdir(path) of a directory that can be enumerated
listdir(f, path) == ChildNames(f, path)

\* str(e) of the OSError raised for an errno
OSErrorName(errno) ==
    CASE errno = "EACCES" -> "PermissionError"
      [] errno = "ENOTDIR" -> "NotADirectoryError"
      [] errno = "ENOENT" -> "FileNotFoundError"
      [] OTHER -> "OSError"

(***************************************************************************)
(* The record of the calls a handler makes, in order: safe_path and the    *)
(* os calls, each with the errno it met.                                   *)
(***************************************************************************)
Call(op, path, errno) == [op |-> op, path |-> path, errno |-> errno]

\* the calls that raise OSError on a failure; os.path.exists and
\* os.path.isdir return False instead and os.walk drops a failed scandir
Raises(call) == call.op \in {"os.stat", "os.listdir", "open"} /\ call.errno # "OK"

RECURSIVE UpToRaise(_)
\* the calls made until one raises
UpToRaise(trace) ==
    IF trace = <<>> THEN <<>>
    ELSE IF Raises(Head(trace)) THEN <<Head(trace)>>
    ELSE <<Head(trace)>> \o UpToRaise(Tail(trace))

Raised(trace) == trace # <<>> /\ Raises(trace[Len(trace)])

\* except Exception as e: raise HTTPException(status_code=500, detail=str(e))
InternalError(trace) == HTTPException(500, OSErrorName(trace[Len(trace)].errno))

Result(response_, calls_) == [response |-> response_, calls |-> calls_]

(***************************************************************************)
(* Lister.                                                                 *)
(***************************************************************************)
\* mutant of FileInfo: a directory entry carries the st_size of its stat
FileInfo_StatSize(name, path, is_dir, size) ==
    [name |-> name, path |-> path, is_dir |-> is_dir,
     size |-> IF size = None THEN Some(0) ELSE size]

\* FileInfo without its modified field (stat.st_mtime, which the model, as
\* pydantic's coercion of the float to Optional[str], leaves aside)
FileInfo(name, path, is_dir, size) ==
    [name |-> name, path |-> path, is_dir |-> is_dir, size |-> size]

RECURSIVE Concat(_)
Concat(seqs) == IF seqs = <<>> THEN <<>> ELSE Head(seqs) \o Concat(Tail(seqs))

RECURSIVE walk(_, _)
\* os.walk(top) with its defaults (topdown, onerror=None, followlinks=False):
\* the directories it visits in order.  A visit whose scandir succeeds
\* (errno "OK") yields (root, dirs, filenames) to the caller; a visit whose
\* scandir fails yields nothing, and the error is dropped.
walk(f, top) ==
    IF ScanErrno(f, top) # "OK"
    THEN << [root |-> top, errno |-> ScanErrno(f, top), dirs |-> <<>>, filenames |-> <<>>] >>
    ELSE LET names == ChildNames(f, top)
             dirs == SelectSeq(names, LAMBDA n : f[Append(Segs(top), n)].kind = "dir")
             filenames == SelectSeq(names, LAMBDA n : f[Append(Segs(top), n)].kind # "dir")
         IN  << [root |-> top, errno |-> "OK", dirs |-> dirs, filenames |-> filenames] >>
             \o Concat([i \in 1..Len(dirs) |-> walk(f, join(top, dirs[i]))])

\* the FileInfo list the loop body builds from one (root, dirs, filenames)
WalkEntries(f, t) ==
    [i \in 1..Len(t.dirs) |->
        FileInfo(t.dirs[i], join(t.root, t.dirs[i]), TRUE, None)]
    \o [i \in 1..Len(t.filenames) |->
          FileInfo(t.filenames[i], join(t.root, t.filenames[i]), FALSE,
                   Some(Len(Node(f, join(t.root, t.filenames[i])).bytes)))]

\* the calls of one visit: the scandir of os.walk, then the loop body's os.stat
WalkCalls(f, t) ==
    LET names == t.dirs \o t.filenames
    IN  << Call("os.scandir", t.root, t.errno) >>
        \o [i \in 1..Len(names) |->
              Call("os.stat", join(t.root, names[i]), Errno(f, join(t.root, names[i])))]

FileListResponse(files) ==
    [status |-> 200, detail |-> "", files |-> files, content |-> <<>>, encoding |-> ""]

\* list_files, recursive branch
ListRecursive(f, path) ==
    LET visits == walk(f, path)
        trace == UpToRaise(Concat([i \in 1..Len(visits) |-> WalkCalls(f, visits[i])]))
    IN  IF Raised(trace) THEN Result(InternalError(trace), trace)
        ELSE Result(FileListResponse(
                        Concat([i \in 1..Len(visits) |-> WalkEntries(f, visits[i])])),
                    trace)

\* list_files, non-recursive branch
ListShallow(f, path) ==
    LET scan == Call("os.listdir", path, ScanErrno(f, path))
        items == IF scan.errno = "OK" THEN listdir(f, path) ELSE <<>>
        ItemCalls(item) ==
            << Call("os.path.isdir", join(path, item), Errno(f, join(path, item))),
               Call("os.stat", join(path, item), Errno(f, join(path, item))) >>
        Info(item) ==
            LET item_path == join(path, item)
                is_dir == isdir(f, item_path)
            IN  FileInfo(item, item_path, is_dir,
                         IF is_dir THEN None ELSE Some(Len(Node(f, item_path).bytes)))
        trace == UpToRaise(<<scan>> \o Concat([i \in 1..Len(items) |-> ItemCalls(items[i])]))
    IN  IF Raised(trace) THEN Result(InternalError(trace), trace)
        ELSE Result(FileListResponse([i \in 1..Len(items) |-> Info(items[i])]), trace)

\* the body of list_files, entered once get_api_key has returned
ListBody(f, req) ==
    LET guard == safe_path(req.path)
        c1 == << Call("safe_path", req.path, "OK") >>
        c2 == c1 \o << Call("os.path.exists", guard.path, Errno(f, guard.path)) >>
    IN  IF ~guard.ok THEN Result(OutsideBase, c1)
        ELSE IF ~exists(f, guard.path) THEN Result(HTTPException(404, "Path not found"), c2)
        ELSE LET r == IF req.recursive = Some(TRUE) THEN ListRecursive(f, guard.path)
                      ELSE ListShallow(f, guard.path)
             IN  Result(r.response, c2 \o r.calls)

\* mutant of list_files: the handler runs without Depends(get_api_key)
list_files_NoGate(f, req) == ListBody(f, req)

\* list_files behind Depends(get_api_key)
list_files(f, req) ==
    IF ~get_api_key(req.api_key) THEN Result(InvalidApiKey, <<>>) ELSE ListBody(f, req)

\* read_root behind Depends(get_api_key)
read_root(req) ==
    IF ~get_api_key(req.api_key) THEN Result(InvalidApiKey, <<>>)
    ELSE Result([status |-> 200, detail |-> "Filesystem MCP server is running",
                 files |-> <<>>, content |-> <<>>, encoding |-> ""], <<>>)

(***************************************************************************)
(* Reader: the codecs of open(path, "r", encoding=...), universal          *)
(* newlines, and base64.                                                   *)
(***************************************************************************)
DecodeOk(text) == [ok |-> TRUE, text |-> text, pos |-> 0]

\* UnicodeDecodeError at byte index pos
DecodeError(pos) == [ok |-> FALSE, text |-> <<>>, pos |-> pos]

RECURSIVE Utf8From(_, _, _)
Utf8From(b, i, acc) ==
    IF i > Len(b) THEN DecodeOk(acc)
    ELSE LET b0 == b[i]
             Cont(k) == i + k <= Len(b) /\ b[i + k] \in 128..191
             c(k) == b[i + k] - 128
         IN  IF b0 < 128 THEN Utf8From(b, i + 1, Append(acc, b0))
             ELSE IF b0 \in 194..223
                  THEN IF Cont(1)
                       THEN Utf8From(b, i + 2, Append(acc, (b0 - 192) * 64 + c(1)))
                       ELSE DecodeError(i)
             ELSE IF b0 \in 224..239
                  THEN IF /\ Cont(1) /\ Cont(2)
                          /\ (b0 = 224 => b[i + 1] >= 160)
                          /\ (b0 = 237 => b[i + 1] <= 159)
                       THEN Utf8From(b, i + 3,
                                     Append(acc, (b0 - 224) * 4096 + c(1) * 64 + c(2)))
                       ELSE DecodeError(i)
             ELSE IF b0 \in 240..244
                  THEN IF /\ Cont(1) /\ Cont(2) /\ Cont(3)
                          /\ (b0 = 240 => b[i + 1] >= 144)
                          /\ (b0 = 244 => b[i + 1] <= 143)
                       THEN Utf8From(b, i + 4,
                                     Append(acc, (b0 - 240) * 262144 + c(1) * 4096
                                                 + c(2) * 64 + c(3)))
                       ELSE DecodeError(i)
             ELSE DecodeError(i)

RECURSIVE AsciiFrom(_, _)
AsciiFrom(b, i) ==
    IF i > Len(b) THEN DecodeOk(b)
    ELSE IF b[i] >= 128 THEN DecodeError(i)
    ELSE AsciiFrom(b, i + 1)

\* the text encodings the codec registry knows, among the names requested
KnownCodecs == {"utf-8", "ascii", "latin-1"}

\* bytes.decode(encoding, errors="strict")
Decode(encoding, b) ==
    CASE encoding = "utf-8" -> Utf8From(b, 1, <<>>)
      [] encoding = "ascii" -> AsciiFrom(b, 1)
      [] encoding = "latin-1" -> DecodeOk(b)

RECURSIVE Newlines(_)
\* text mode with newline=None: "\r\n" and "\r" are read as "\n"
Newlines(text) ==
    IF text = <<>> THEN <<>>
    ELSE IF Head(text) = 13
         THEN IF Len(text) >= 2 /\ text[2] = 10
              THEN <<10>> \o Newlines(Tail(Tail(text)))
              ELSE <<10>> \o Newlines(Tail(text))
    ELSE <<Head(text)>> \o Newlines(Tail(text))

\* the base64 alphabet, as ASCII codes
B64Char(i) ==
    IF i < 26 THEN 65 + i
    ELSE IF i < 52 THEN 97 + (i - 26)
    ELSE IF i < 62 THEN 48 + (i - 52)
    ELSE IF i = 62 THEN 43
    ELSE 47

B64Pad == 61

RECURSIVE b64encode(_)
\* base64.b64encode(b).decode("ascii")
b64encode(b) ==
    IF Len(b) = 0 THEN <<>>
    ELSE IF Len(b) = 1
         THEN << B64Char(b[1] \div 4), B64Char((b[1] % 4) * 16), B64Pad, B64Pad >>
    ELSE IF Len(b) = 2
         THEN << B64Char(b[1] \div 4), B64Char((b[1] % 4) * 16 + b[2] \div 16),
                 B64Char((b[2] % 16) * 4), B64Pad >>
    ELSE << B64Char(b[1] \div 4), B64Char((b[1] % 4) * 16 + b[2] \div 16),
            B64Char((b[2] % 16) * 4 + b[3] \div 64), B64Char(b[3] % 64) >>
         \o b64encode(SubSeq(b, 4, Len(b)))

FileContentResponse(content, encoding) ==
    [status |-> 200, detail |-> "", files |-> <<>>, content |-> content,
     encoding |-> encoding]

\* request.encoding or "utf-8"
EncodingOf(req) == IF Truthy(req.encoding) THEN req.encoding[1] ELSE "utf-8"

\* mutant of TextLabel: the fixed label "text"
TextLabel_Text(encoding) == "text"

\* the label of a text response: encoding=encoding
TextLabel(encoding) == encoding

\* mutant of BinaryRead: the fallback reads on from where a first byte was
\* consumed instead of reading the file again from its start
BinaryRead_Rest(f, path) ==
    LET bytes == Node(f, path).bytes
    IN  IF bytes = <<>> THEN <<>> ELSE Tail(bytes)

\* with open(path, "rb") as file: file.read() -- the whole file, from its start
BinaryRead(f, path) == Node(f, path).bytes

\* the try block of read_file and its except UnicodeDecodeError
ReadContent(f, path, encoding) ==
    LET open1 == << Call("open", path, OpenErrno(f, path)) >>
        decoded == Decode(encoding, Node(f, path).bytes)
    IN  IF Raised(open1) THEN Result(InternalError(open1), open1)
        ELSE IF encoding \notin KnownCodecs
             THEN Result(HTTPException(500, "LookupError"), open1)
        ELSE IF decoded.ok
             THEN Result(FileContentResponse(Newlines(decoded.text), TextLabel(encoding)),
                         open1)
        ELSE Result(FileContentResponse(b64encode(BinaryRead(f, path)), "base64"),
                    open1 \o open1)

\* mutant of ReadBody: no os.path.isdir check, so that open() of a
\* directory raises IsADirectoryError
ReadBody_NoDirCheck(f, req) ==
    LET guard == safe_path(req.path)
        c1 == << Call("safe_path", req.path, "OK") >>
        c2 == c1 \o << Call("os.path.exists", guard.path, Errno(f, guard.path)) >>
    IN  IF ~guard.ok THEN Result(OutsideBase, c1)
        ELSE IF ~exists(f, guard.path) THEN Result(HTTPException(404, "File not found"), c2)
        ELSE IF isdir(f, guard.path)
             THEN Result(HTTPException(500, "IsADirectoryError"),
                         c2 \o << Call("open", guard.path, "EISDIR") >>)
        ELSE LET r == ReadContent(f, guard.path, EncodingOf(req))
             IN  Result(r.response, c2 \o r.calls)

\* the body of read_file, entered once get_api_key has returned
ReadBody(f, req) ==
    LET guard == safe_path(req.path)
        c1 == << Call("safe_path", req.path, "OK") >>
        c2 == c1 \o << Call("os.path.exists", guard.path, Errno(f, guard.path)) >>
        c3 == c2 \o << Call("os.path.isdir", guard.path, Errno(f, guard.path)) >>
    IN  IF ~guard.ok THEN Result(OutsideBase, c1)
        ELSE IF ~exists(f, guard.path) THEN Result(HTTPException(404, "File not found"), c2)
        ELSE IF isdir(f, guard.path)
             THEN Result(HTTPException(400, "Cannot read directory"), c3)
        ELSE LET r == ReadContent(f, guard.path, EncodingOf(req))
             IN  Result(r.response, c3 \o r.calls)

\* read_file behind Depends(get_api_key)
read_file(f, req) ==
    IF ~get_api_key(req.api_key) THEN Result(InvalidApiKey, <<>>) ELSE ReadBody(f, req)

(***************************************************************************)
(* Configurations, filesystems and requests.                               *)
(***************************************************************************)
D == <<"d">>

D2 == <<"d", "2">>

A == <<"a">>

B == <<"b">>

\* "hello\n"
Hello == <<104, 101, 108, 108, 111, 10>>

\* [0xFF, 0x00, 0x10]
Binary == <<255, 0, 16>>

RWX == {"r", "x"}

\* os.getenv("MCP_API_KEY"): unset, empty, or a secret
Secrets == {None, Some(""), Some("k")}

\* os.getenv("MCP_BASE_PATH"): unset, empty, or the sandbox root /d
BasePaths == {None, Some(<<>>), Some(<<Slash>> \o D)}

\* the X-MCP-API-Key header: absent, empty, the secret, another value
Headers == {None, Some(""), Some("k"), Some("x")}

\* /          (dir)
\* /d         (dir, the sandbox root)     /d/a    (file)
\* /d/d       (dir)                       /d/d/a  (file)
\* /d2        (dir, a sibling of /d)      /d2/a   (file)
BaseTree(bytes, fperm, dperm) ==
    (<<>> :> DirNode(RWX)) @@ (<<D>> :> DirNode(RWX))
    @@ (<<D, A>> :> FileNode(fperm, bytes))
    @@ (<<D, D>> :> DirNode(dperm)) @@ (<<D, D, A>> :> FileNode({"r"}, Hello))
    @@ (<<D2>> :> DirNode(RWX)) @@ (<<D2, A>> :> FileNode({"r"}, Binary))

BaseTrees ==
    { BaseTree(Hello, {"r"}, RWX), BaseTree(Binary, {"r"}, RWX),
      BaseTree(Hello, {}, RWX), BaseTree(Hello, {"r"}, {}) }

\* client paths: up to MaxSegs components, absolute or relative
SegNames == {D, D2, A, DotDot, Dot, <<>>}

ClientPaths ==
    { (IF abs THEN <<Slash>> ELSE <<>>) \o JoinComps(segs) :
        abs \in BOOLEAN, segs \in BoundedSeqs(SegNames, MaxSegs) }

Recursives == {None, Some(FALSE), Some(TRUE)}

Encodings == {None, Some(""), Some("utf-8"), Some("ascii"), Some("latin-1"), Some("klingon")}

\* directory trees under /d: up to MaxNodes files and directories named a, b
DirPerms == {RWX, {"r"}, {}}

TreeNodes == {FileNode({"r"}, <<104>>)} \cup {DirNode(perm) : perm \in DirPerms}

Grow(t) ==
    UNION { { t @@ (Append(parent, n) :> node) :
                n \in {m \in {A, B} : Append(parent, m) \notin DOMAIN t},
                node \in TreeNodes } :
            parent \in {q \in DOMAIN t : Len(q) >= 1 /\ t[q].kind = "dir"} }

RECURSIVE TreesUpTo(_)
TreesUpTo(n) ==
    IF n = 0 THEN { (<<>> :> DirNode(RWX)) @@ (<<D>> :> DirNode(RWX)) }
    ELSE LET smaller == TreesUpTo(n - 1)
         IN  smaller \cup UNION {Grow(t) : t \in smaller}

Trees == TreesUpTo(MaxNodes)

TreePaths == {<<Slash>> \o D, <<Slash>> \o D \o <<Slash>> \o A,
              <<Slash>> \o D \o <<Slash>> \o B \o <<Slash>> \o A}

\* file contents: up to MaxBytes bytes, and the two samples
ByteAlphabet == {10, 13, 104, 195, 169, 255}

Contents ==
    BoundedSeqs(ByteAlphabet, MaxBytes)
    \cup {Hello, Binary, <<226, 130, 172>>, <<240, 159, 152, 128>>, <<237, 160, 128>>}

ContentTrees == {BaseTree(bytes, {"r"}, RWX) : bytes \in Contents}

ReadPaths == {<<Slash>> \o D \o <<Slash>> \o A, <<Slash>> \o D, <<Slash>> \o D \o <<Slash>> \o B}

(***************************************************************************)
(* The server: one request at a time is taken, handled and answered.       *)
(***************************************************************************)
Request(endpoint, api_key, path, recursive, encoding) ==
    [endpoint |-> endpoint, api_key |-> api_key, path |-> path,
     recursive |-> recursive, encoding |-> encoding]

NoRequest == Request("", None, <<>>, None, None)

NoResponse == HTTPException(0, "")

InitOver(secrets, bases, trees) ==
    /\ MCP_API_KEY \in secrets
    /\ MCP_BASE_PATH \in bases
    /\ fs \in trees
    /\ pc = "idle"
    /\ request = NoRequest
    /\ response = NoResponse
    /\ calls = <<>>

\* the handler's result becomes the response of the request taken
Handled(req, result) ==
    /\ pc' = "responded"
    /\ request' = req
    /\ response' = result.response
    /\ calls' = result.calls
    /\ UNCHANGED <<MCP_API_KEY, MCP_BASE_PATH, fs>>

\* @app.get("/")
GET_root(headers) ==
    /\ pc = "idle"
    /\ \E h \in headers :
        LET req == Request("/", h, <<>>, None, None)
        IN  Handled(req, read_root(req))

\* @app.post("/list")
POST_list(headers, paths, recursives) ==
    /\ pc = "idle"
    /\ \E h \in headers, p \in paths, r \in recursives :
        LET req == Request("/list", h, p, r, None)
        IN  Handled(req, list_files(fs, req))

\* @app.post("/read")
POST_read(headers, paths, encodings) ==
    /\ pc = "idle"
    /\ \E h \in headers, p \in paths, e \in encodings :
        LET req == Request("/read", h, p, None, e)
        IN  Handled(req, read_file(fs, req))

\* the response is sent and the request's objects are discarded
SendResponse ==
    /\ pc = "responded"
    /\ pc' = "idle"
    /\ request' = NoRequest
    /\ response' = NoResponse
    /\ calls' = <<>>
    /\ UNCHANGED <<MCP_API_KEY, MCP_BASE_PATH, fs>>

\* every configuration and every client path, over the base trees
Init == InitOver(Secrets, BasePaths, BaseTrees)

Next ==
    \/ GET_root(Headers)
    \/ POST_list(Headers, ClientPaths, Recursives)
    \/ POST_read(Headers, ClientPaths, {None, Some("klingon")})
    \/ SendResponse

Spec == Init /\ [][Next]_vars

\* every directory tree, listed and read under the sandbox root /d
InitTree == InitOver({None, Some("k")}, {Some(<<Slash>> \o D)}, Trees)

NextTree ==
    \/ GET_root({None, Some("k")})
    \/ POST_list({None, Some("k")}, TreePaths, {Some(FALSE), Some(TRUE)})
    \/ POST_read({None, Some("k")}, TreePaths, {None})
    \/ SendResponse

SpecTree == InitTree /\ [][NextTree]_vars

\* every file content, read under every encoding
InitRead == InitOver({None, Some("k")}, {None, Some(<<Slash>> \o D)}, ContentTrees)

NextRead ==
    \/ GET_root({None, Some("k")})
    \/ POST_list({None, Some("k")}, ReadPaths, {Some(FALSE)})
    \/ POST_read({None, Some("k")}, ReadPaths, Encodings)
    \/ SendResponse

SpecRead == InitRead /\ [][NextRead]_vars

(***************************************************************************)
(* Vocabulary of the properties.                                           *)
(***************************************************************************)
Responded == pc = "responded"

Listing == Responded /\ request.endpoint = "/list"

Reading == Responded /\ request.endpoint = "/read"

SecretConfigured == MCP_API_KEY # None /\ MCP_API_KEY # Some("")

RootConfigured == MCP_BASE_PATH # None /\ MCP_BASE_PATH # Some(<<>>)

\* the credential header is present and equal to the configured secret
HeaderMatches == request.api_key # None /\ request.api_key = MCP_API_KEY

GatePasses == ~SecretConfigured \/ HeaderMatches

\* the canonical absolute form of the client path, and of the root
Canonical == abspath(request.path)

Root == abspath(MCP_BASE_PATH[1])

IsPrefix(s, t) == Len(s) <= Len(t) /\ \A i \in 1..Len(s) : s[i] = t[i]

\* Canonical is the root or a segment-wise descendant of it
SegmentContained == IsPrefix(Segs(Root), Segs(Canonical))

\* Canonical begins with the root's characters (the test safe_path makes)
CharContained == IsPrefix(Root, Canonical)

GuardPasses == ~RootConfigured \/ CharContained

Target == Segs(Canonical)

TargetExists == Target \in DOMAIN fs

\* every directory above the target can be searched, so stat reaches it
TargetReachable ==
    /\ TargetExists
    /\ \A i \in 0..(Len(Target) - 1) : "x" \in fs[SubSeq(Target, 1, i)].perm

TargetIsDir == TargetReachable /\ fs[Target].kind = "dir"

TargetIsFile == TargetReachable /\ fs[Target].kind = "file"

NoContent == response.files = <<>> /\ response.content = <<>>

OsCalls == {calls[i] : i \in 1..Len(calls)}

FilesystemCalls == {c \in OsCalls : c.op # "safe_path"}

(***************************************************************************)
(* C1: with a sandbox root R configured, /list and /read answer 403 and    *)
(* make no filesystem call for every client path whose canonical form is   *)
(* not R or a segment-wise descendant of R (siblings such as /d2 that      *)
(* share R's characters, and paths climbing out with "..", included).      *)
(***************************************************************************)
C1_Containment ==
    (Responded /\ request.endpoint \in {"/list", "/read"}
       /\ RootConfigured /\ ~SegmentContained)
    => (response.status = 403 /\ FilesystemCalls = {})

(***************************************************************************)
(* C2: when a secret is configured a request is allowed exactly when its   *)
(* X-MCP-API-Key header is present and equal to the secret, and every      *)
(* other request is answered 403 "Invalid API key"; when no secret is      *)
(* configured no request is refused by the gate, whatever its header.      *)
(***************************************************************************)
C2_AccessGate ==
    Responded =>
        /\ (SecretConfigured /\ HeaderMatches) => response # InvalidApiKey
        /\ (SecretConfigured /\ ~HeaderMatches)
              => (response = InvalidApiKey /\ response.status = 403)
        /\ ~SecretConfigured => response # InvalidApiKey

C2_Witness ==
    /\ Responded /\ SecretConfigured
    /\ request.api_key = Some("")
    /\ request.endpoint = "/list"
    /\ response = InvalidApiKey

(***************************************************************************)
(* C3: on every endpoint a request that fails the gate is answered 403     *)
(* before safe_path and before any filesystem call: no call is made and    *)
(* the response is the same whatever the path and the filesystem.          *)
(***************************************************************************)
C3_GateFirst ==
    (Responded /\ ~GatePasses) => (response = InvalidApiKey /\ calls = <<>>)

C3_Witness ==
    /\ Reading /\ ~GatePasses
    /\ RootConfigured /\ ~CharContained
    /\ response = InvalidApiKey
    /\ calls = <<>>

(***************************************************************************)
(* C4: a recursive listing of a directory whose subtree holds N files and  *)
(* M subdirectories returns exactly N+M entries, one per file and per      *)
(* subdirectory, each once, is_dir true exactly for the directories, and   *)
(* no entry for the listed path itself.                                    *)
(***************************************************************************)
Under == {q \in DOMAIN fs : Len(q) > Len(Target) /\ IsPrefix(Target, q)}

EntryTargets == {Segs(response.files[i].path) : i \in 1..Len(response.files)}

ExactlyTheSubtree ==
    /\ Len(response.files) = Cardinality(Under)
    /\ EntryTargets = Under
    /\ \A i \in 1..Len(response.files) :
          response.files[i].is_dir <=> (fs[Segs(response.files[i].path)].kind = "dir")

C4_RecursiveCompleteness ==
    (Listing /\ request.recursive = Some(TRUE) /\ TargetIsDir /\ response.status = 200)
    => ExactlyTheSubtree

\* C4 restricted to subtrees whose directories can all be read and searched:
\* there the listing is exact (the failures of C4 are those of C10)
AllAccessible == \A q \in Under \cup {Target} : fs[q].kind = "dir" => fs[q].perm = RWX

RecursiveCompletenessWhenAccessible ==
    (Listing /\ request.recursive = Some(TRUE) /\ GatePasses /\ GuardPasses
       /\ TargetIsDir /\ AllAccessible)
    => (response.status = 200 /\ ExactlyTheSubtree)

(***************************************************************************)
(* C5 as stated: the encoding of every successful /read response is        *)
(* "text" or "base64", and a file that decodes under the requested         *)
(* character set (default UTF-8) is answered with its decoded text and the *)
(* encoding "text".                                                        *)
(***************************************************************************)
\* the character set the request asks for
Requested ==
    IF request.encoding = None \/ request.encoding = Some("") THEN "utf-8"
    ELSE request.encoding[1]

Decodes == Requested \in KnownCodecs /\ Decode(Requested, fs[Target].bytes).ok

B64Index(c) == CHOOSE i \in 0..63 : B64Char(i) = c

RECURSIVE b64decode(_)
b64decode(t) ==
    IF Len(t) < 4 THEN <<>>
    ELSE LET i1 == B64Index(t[1])
             i2 == B64Index(t[2])
             b1 == i1 * 4 + i2 \div 16
         IN  IF t[3] = B64Pad THEN <<b1>>
             ELSE LET i3 == B64Index(t[3])
                      b2 == (i2 % 16) * 16 + i3 \div 4
                  IN  IF t[4] = B64Pad THEN <<b1, b2>>
                      ELSE <<b1, b2, (i3 % 4) * 64 + B64Index(t[4])>>
                           \o b64decode(SubSeq(t, 5, Len(t)))

Opens == Cardinality({i \in 1..Len(calls) : calls[i].op = "open" /\ calls[i].errno = "OK"})

C6_Base64RoundTrip ==
    (Reading /\ Opens >= 1 /\ Requested \in KnownCodecs /\ ~Decodes)
    => /\ response.status = 200
       /\ response.encoding = "base64"
       /\ b64decode(response.content) = fs[Target].bytes
       /\ Opens = 2

C6_Witness ==
    /\ Reading /\ request.encoding = None
    /\ TargetIsFile /\ fs[Target].bytes = Binary
    /\ response.encoding = "base64"
    /\ response.content = <<47, 119, 65, 81>>

(***************************************************************************)
(* C7: for a request that passes the gate and the containment check, /list *)
(* and /read on a path that does not exist answer 404, and /read on a      *)
(* directory answers 400; neither carries a listing or a content.          *)
(***************************************************************************)
C7_NotFoundAndDirectory ==
    (Responded /\ request.endpoint \in {"/list", "/read"} /\ GatePasses /\ GuardPasses)
    => /\ ~TargetExists => (response.status = 404 /\ NoContent)
       /\ (request.endpoint = "/read" /\ TargetIsDir)
             => (response.status = 400 /\ NoContent)

C7_Witness ==
    /\ Reading /\ GatePasses /\ RootConfigured /\ TargetIsDir
    /\ response.status = 400

C7_WitnessNotFound ==
    /\ Listing /\ GatePasses /\ RootConfigured /\ CharContained /\ ~TargetExists
    /\ response.status = 404

(***************************************************************************)
(* C8: every entry of a listing, recursive or not, has a size exactly when *)
(* it is not a directory.                                                  *)
(***************************************************************************)
C8_SizeIffFile ==
    Listing => \A i \in 1..Len(response.files) :
                  (response.files[i].size # None) <=> ~response.files[i].is_dir

C8_Witness ==
    /\ Listing /\ request.recursive = Some(TRUE)
    /\ \E i, j \in 1..Len(response.files) :
          /\ response.files[i].is_dir /\ response.files[i].size = None
          /\ ~response.files[j].is_dir /\ response.files[j].size # None

(***************************************************************************)
(* C9: /list on an admitted, existing regular file returns a one-element   *)
(* list describing the file or fails with 400, in both modes; it returns   *)
(* neither an empty list nor a 500.                                        *)
(***************************************************************************)
C9_ListOnFile ==
    (Listing /\ GatePasses /\ GuardPasses /\ TargetIsFile)
    => \/ (response.status = 200 /\ Len(response.files) = 1)
       \/ response.status = 400

(***************************************************************************)
(* C10: no failure is swallowed: whenever an os call made while serving a  *)
(* request fails (a scandir of the walk, a listdir, a stat, an open), the  *)
(* response is a 500, never a success with the failing part left out.      *)
(***************************************************************************)
FailedCalls ==
    {c \in OsCalls : c.op \in {"os.scandir", "os.listdir", "os.stat", "open"}
                     /\ c.errno # "OK"}

C10_NoFailureSwallowed ==
    (Responded /\ FailedCalls # {}) => response.status = 500

====
